---- MODULE Spec2Model ----
(***************************************************************************)
(* Model of src/aeroponic_simulator.py: simulate_aeroponic_absorption and  *)
(* plot_absorption_characteristics.                                        *)
(*                                                                         *)
(* Python's real-valued scalars are modelled as exact rationals (sign,     *)
(* numerator, denominator), numerator and denominator being arbitrary      *)
(* precision naturals, so that no value of the computation is rounded or   *)
(* truncated by the model.  np.pi is kept symbolically: the two results     *)
(* that contain it are rational multiples of pi^2.                         *)
(***************************************************************************)
EXTENDS Integers, Sequences, FiniteSets, TLC

(***************************************************************************)
(* Arbitrary precision naturals: little-endian sequences of limbs in       *)
(* 0 .. Base-1 without leading zero limbs; <<>> is zero.                   *)
(***************************************************************************)
Base == 10 * 10 * 10 * 10

RECURSIVE NatOf(_)
NatOf(i) ==
    IF i = 0 THEN <<>> ELSE <<i % Base>> \o NatOf(i \div Base)

RECURSIVE Trim(_)
Trim(s) ==
    IF s = <<>> THEN <<>>
    ELSE IF s[Len(s)] = 0 THEN Trim(SubSeq(s, 1, Len(s) - 1))
    ELSE s

\* carry propagation over a sequence of non-negative limbs of any size
RECURSIVE Carry(_, _, _)
Carry(r, i, c) ==
    IF i > Len(r)
    THEN IF c = 0 THEN <<>> ELSE <<c % Base>> \o Carry(r, i, c \div Base)
    ELSE LET t == r[i] + c
         IN  <<t % Base>> \o Carry(r, i + 1, t \div Base)

Limb(a, i) ==
    IF i <= Len(a) THEN a[i] ELSE 0

NAdd(a, b) ==
    LET n == IF Len(a) > Len(b) THEN Len(a) ELSE Len(b)
    IN  Carry([i \in 1..n |-> Limb(a, i) + Limb(b, i)], 1, 0)

\* a - b for a >= b
RECURSIVE Borrow(_, _, _, _)
Borrow(a, b, i, c) ==
    IF i > Len(a) THEN <<>>
    ELSE LET t == a[i] - Limb(b, i) - c
         IN  IF t < 0 THEN <<t + Base>> \o Borrow(a, b, i + 1, 1)
             ELSE <<t>> \o Borrow(a, b, i + 1, 0)

NSub(a, b) ==
    Trim(Borrow(a, b, 1, 0))

RECURSIVE Conv(_, _, _, _, _)
Conv(a, b, k, i, hi) ==
    IF i > hi THEN 0 ELSE a[i] * b[k - i + 1] + Conv(a, b, k, i + 1, hi)

NMul(a, b) ==
    IF a = <<>> \/ b = <<>> THEN <<>>
    ELSE Carry([k \in 1..(Len(a) + Len(b) - 1) |->
                   Conv(a, b, k,
                        IF k - Len(b) + 1 > 1 THEN k - Len(b) + 1 ELSE 1,
                        IF k < Len(a) THEN k ELSE Len(a))], 1, 0)

RECURSIVE NCmpFrom(_, _, _)
NCmpFrom(a, b, i) ==
    IF i = 0 THEN 0
    ELSE IF a[i] < b[i] THEN -1
    ELSE IF a[i] > b[i] THEN 1
    ELSE NCmpFrom(a, b, i - 1)

\* -1, 0, 1 as a < b, a = b, a > b
NCmp(a, b) ==
    IF Len(a) < Len(b) THEN -1
    ELSE IF Len(a) > Len(b) THEN 1
    ELSE NCmpFrom(a, b, Len(a))

(***************************************************************************)
(* Exact rationals s * n / d, s in {-1, 0, 1}, n and d naturals, d > 0,    *)
(* n = 0 iff s = 0.  Common factors of Base are cancelled, nothing else:   *)
(* values are compared with RCmp, never by their representation.           *)
(***************************************************************************)
RECURSIVE Reduce(_, _, _)
Reduce(s, n, d) ==
    IF n = <<>> THEN [s |-> 0, n |-> <<>>, d |-> <<1>>]
    ELSE IF n[1] = 0 /\ d[1] = 0 THEN Reduce(s, Tail(n), Tail(d))
    ELSE [s |-> s, n |-> n, d |-> d]

Abs(i) == IF i < 0 THEN -i ELSE i

Sgn(i) == IF i < 0 THEN -1 ELSE IF i > 0 THEN 1 ELSE 0

\* the rational p / q of two machine integers, q > 0
Q(p, q) == Reduce(Sgn(p), NatOf(Abs(p)), NatOf(q))

Z(p) == Q(p, 1)

RMul(a, b) == Reduce(a.s * b.s, NMul(a.n, b.n), NMul(a.d, b.d))

\* a / b for b # 0
RDiv(a, b) == Reduce(a.s * b.s, NMul(a.n, b.d), NMul(a.d, b.n))

RNeg(a) == [a EXCEPT !.s = -a.s]

RAdd(a, b) ==
    IF a.s = 0 THEN b
    ELSE IF b.s = 0 THEN a
    ELSE LET x == NMul(a.n, b.d)
             y == NMul(b.n, a.d)
             d == IF a.d = b.d THEN a.d ELSE NMul(a.d, b.d)
             xx == IF a.d = b.d THEN a.n ELSE x
             yy == IF a.d = b.d THEN b.n ELSE y
         IN  IF a.s = b.s THEN Reduce(a.s, NAdd(xx, yy), d)
             ELSE LET c == NCmp(xx, yy)
                  IN  IF c = 0 THEN Z(0)
                      ELSE IF c > 0 THEN Reduce(a.s, NSub(xx, yy), d)
                      ELSE Reduce(b.s, NSub(yy, xx), d)

RSub(a, b) == RAdd(a, RNeg(b))

\* -1, 0, 1 as a < b, a = b, a > b
RCmp(a, b) ==
    IF a.s # b.s THEN (IF a.s < b.s THEN -1 ELSE 1)
    ELSE IF a.s = 0 THEN 0
    ELSE a.s * NCmp(NMul(a.n, b.d), NMul(b.n, a.d))

RLt(a, b) == RCmp(a, b) < 0
RLe(a, b) == RCmp(a, b) <= 0
RGt(a, b) == RCmp(a, b) > 0
REq(a, b) == RCmp(a, b) = 0
RIsZero(a) == a.s = 0

(***************************************************************************)
(* simulate_aeroponic_absorption, lines 9-64: one operator per assignment, *)
(* its parameters the names the right-hand side reads.                     *)
(***************************************************************************)
\* mutant: the bounds of the range check taken as exclusive
droplet_size_accepted_strict(droplet_size) ==
    RLt(Z(20), droplet_size) /\ RLt(droplet_size, Z(50))

\* line 9: the range check passes
droplet_size_accepted(droplet_size) ==
    RLe(Z(20), droplet_size) /\ RLe(droplet_size, Z(50))

air_viscosity(temperature) ==
    RMul(Q(18, 1000000),
         RAdd(Z(1), RMul(Q(284, 100000), RSub(temperature, Z(20)))))

water_density == Q(9980, 10)

gravity == Q(981, 100)

droplet_size_m(droplet_size) == RMul(droplet_size, Q(1, 1000000))

root_diameter_m(root_diameter) == RMul(root_diameter, Q(1, 1000))

\* line 19: the divisor 18 * air_viscosity * root_diameter_m
stokes_divisor(visc, rm) == RMul(RMul(Z(18), visc), rm)

stokes_number(dm, airflow_velocity, visc, rm) ==
    RDiv(RMul(RMul(water_density, RMul(dm, dm)), airflow_velocity),
         stokes_divisor(visc, rm))

reynolds_number(airflow_velocity, rm, visc) ==
    RDiv(RMul(RMul(water_density, airflow_velocity), rm), visc)

\* line 21: the divisor 18 * air_viscosity
settling_divisor(visc) == RMul(Z(18), visc)

settling_velocity(dm, visc) ==
    RDiv(RMul(RMul(water_density, RMul(dm, dm)), gravity),
         settling_divisor(visc))

impact_time(rm, airflow_velocity) == RDiv(rm, airflow_velocity)

interception_param(dm, rm) == RDiv(dm, rm)

\* line 25: the divisor 1 + interception_param
interception_divisor(ip) == RAdd(Z(1), ip)

interception_efficiency(ip) ==
    RDiv(RMul(Q(6, 10), RMul(ip, ip)), interception_divisor(ip))

\* mutant: the impaction threshold taken as inclusive
impaction_efficiency_ge(stokes) ==
    IF RLe(Q(1, 10), stokes)
    THEN RDiv(RMul(stokes, stokes), RAdd(RMul(stokes, stokes), Q(25, 100)))
    ELSE Z(0)

impaction_efficiency(stokes) ==
    IF RGt(stokes, Q(1, 10))
    THEN RDiv(RMul(stokes, stokes), RAdd(RMul(stokes, stokes), Q(25, 100)))
    ELSE Z(0)

sedimentation_param(sv, airflow_velocity) == RDiv(sv, airflow_velocity)

\* mutant: a slope of 0.1 instead of 0.01
bounce_factor_steep(droplet_size) ==
    IF RLt(droplet_size, Z(30))
    THEN RSub(Z(1), RMul(Q(1, 10), RSub(Z(30), droplet_size)))
    ELSE Z(1)

bounce_factor(droplet_size) ==
    IF RLt(droplet_size, Z(30))
    THEN RSub(Z(1), RMul(Q(1, 100), RSub(Z(30), droplet_size)))
    ELSE Z(1)

single_fiber_efficiency(ie, imp, sed, bf) ==
    RMul(RAdd(RAdd(ie, imp), sed), bf)

\* mutant: the concentration threshold taken as inclusive
concentration_factor_ge(nutrient_concentration) ==
    IF RLe(Z(1000), nutrient_concentration) THEN Q(9, 10) ELSE Z(1)

concentration_factor(nutrient_concentration) ==
    IF RGt(nutrient_concentration, Z(1000)) THEN Q(9, 10) ELSE Z(1)

\* mutant: the film step entered above 30 micrometers instead of 40
film_engaged_30(droplet_size, exposure_time) ==
    RGt(droplet_size, Z(30)) /\ RGt(exposure_time, Z(30))

\* line 50: the film step is entered
film_engaged(droplet_size, exposure_time) ==
    RGt(droplet_size, Z(40)) /\ RGt(exposure_time, Z(30))

\* mutant: the operands of the subtraction swapped
film_saturation_time_swapped(droplet_size) ==
    RAdd(Z(30), RSub(droplet_size, Z(50)))

film_saturation_time(droplet_size) ==
    RAdd(Z(30), RSub(Z(50), droplet_size))

\* mutant: the comparison of line 52 reversed
film_saturated_reversed(droplet_size, exposure_time) ==
    /\ film_engaged(droplet_size, exposure_time)
    /\ RLt(exposure_time, film_saturation_time(droplet_size))

\* lines 50 and 52: excess_time is computed, the division by exposure_time
\* is executed
film_saturated(droplet_size, exposure_time) ==
    /\ film_engaged(droplet_size, exposure_time)
    /\ RGt(exposure_time, film_saturation_time(droplet_size))

excess_time(droplet_size, exposure_time) ==
    RDiv(RSub(exposure_time, film_saturation_time(droplet_size)), exposure_time)

film_formation_factor(droplet_size, exposure_time) ==
    IF film_saturated(droplet_size, exposure_time)
    THEN RSub(Z(1), RMul(Q(3, 10), excess_time(droplet_size, exposure_time)))
    ELSE Z(1)

absorption_efficiency(sfe, cf, fff) == RMul(RMul(sfe, cf), fff)

\* root_surface_area / pi
root_surface_area(rm, root_density) ==
    RMul(RMul(rm, Q(1, 100)), root_density)

\* droplet_volume / pi
droplet_volume(dm) ==
    LET h == RDiv(dm, Z(2))
    IN  RMul(Q(4, 3), RMul(h, RMul(h, h)))

droplet_density == Z(500000000)

\* water_flow_rate / pi
water_flow_rate(airflow_velocity, dv) ==
    RMul(RMul(airflow_velocity, dv), droplet_density)

\* absorption_rate / pi^2
absorption_rate(wfr, ae, rsa) ==
    RMul(RMul(RMul(RMul(wfr, ae), rsa), Z(60)), Z(1000000))

\* nutrients_absorbed / pi^2
nutrients_absorbed(ar, nutrient_concentration) ==
    RDiv(RMul(ar, nutrient_concentration), Z(1000))

(***************************************************************************)
(* The body of simulate_aeroponic_absorption up to the results dictionary  *)
(* (lines 9-79) on the argument record a.  The outcome is the exception    *)
(* raised (ValueError of line 10, or Python's ZeroDivisionError with the   *)
(* source line of the first division whose divisor is zero) or the locals  *)
(* of the call with its results dictionary.                                *)
(***************************************************************************)
NoLocals == [none |-> TRUE]

Raised(kind, line) ==
    [kind |-> kind, line |-> line, results |-> NoLocals, locals |-> NoLocals]

Body(a) ==
    IF ~droplet_size_accepted(a.droplet_size) THEN Raised("ValueError", 10)
    ELSE
    LET visc == air_viscosity(a.temperature)
        dm   == droplet_size_m(a.droplet_size)
        rm   == root_diameter_m(a.root_diameter)
        v    == a.airflow_velocity
        st   == stokes_number(dm, v, visc, rm)
        re   == reynolds_number(v, rm, visc)
        sv   == settling_velocity(dm, visc)
        it   == impact_time(rm, v)
        ip   == interception_param(dm, rm)
        ie   == interception_efficiency(ip)
        imp  == impaction_efficiency(st)
        sed  == sedimentation_param(sv, v)
        bf   == bounce_factor(a.droplet_size)
        sfe  == single_fiber_efficiency(ie, imp, sed, bf)
        cf   == concentration_factor(a.nutrient_concentration)
        fff  == film_formation_factor(a.droplet_size, a.exposure_time)
        ae   == absorption_efficiency(sfe, cf, fff)
        rsa  == root_surface_area(rm, a.root_density)
        dv   == droplet_volume(dm)
        wfr  == water_flow_rate(v, dv)
        ar   == absorption_rate(wfr, ae, rsa)
        na   == nutrients_absorbed(ar, a.nutrient_concentration)
        site == IF RIsZero(stokes_divisor(visc, rm)) THEN 19
                ELSE IF RIsZero(visc) THEN 20
                ELSE IF RIsZero(settling_divisor(visc)) THEN 21
                ELSE IF RIsZero(v) THEN 22
                ELSE IF RIsZero(rm) THEN 24
                ELSE IF RIsZero(interception_divisor(ip)) THEN 25
                ELSE IF RIsZero(v) THEN 32
                ELSE IF film_saturated(a.droplet_size, a.exposure_time)
                        /\ RIsZero(a.exposure_time) THEN 53
                ELSE 0
    IN  IF site # 0 THEN Raised("ZeroDivisionError", site)
        ELSE [kind    |-> "ok",
              line    |-> 0,
              results |->
                [absorption_rate          |-> ar,
                 efficiency               |-> ae,
                 total_nutrients_absorbed |-> na,
                 parameters |->
                   [stokes_number            |-> st,
                    reynolds_number          |-> re,
                    interception_efficiency  |-> ie,
                    impaction_efficiency     |-> imp,
                    sedimentation_efficiency |-> sed,
                    film_formation_factor    |-> fff,
                    concentration_factor     |-> cf]],
              locals |->
                [bounce_factor           |-> bf,
                 single_fiber_efficiency |-> sfe,
                 uncorrected_sum         |-> RAdd(RAdd(ie, imp), sed),
                 impact_time             |-> it,
                 film_saturated          |->
                     film_saturated(a.droplet_size, a.exposure_time),
                 excess_time             |->
                     IF film_saturated(a.droplet_size, a.exposure_time)
                     THEN excess_time(a.droplet_size, a.exposure_time)
                     ELSE Z(0)]]

(***************************************************************************)
(* Argument values.  Decimal literals are exact: D(x) is x / 1000.         *)
(***************************************************************************)
D(x) == Q(x, 1000)

Defaults(droplet_size, nutrient_concentration, plot_results) ==
    [droplet_size           |-> droplet_size,
     nutrient_concentration |-> nutrient_concentration,
     root_diameter          |-> D(500),
     airflow_velocity       |-> D(100),
     temperature            |-> Z(25),
     exposure_time          |-> Z(60),
     root_density           |-> Z(1000),
     plot_results           |-> plot_results]

\* np.linspace(start, stop, num)[i], i in 0 .. num-1: arange(num) * step + start
\* with step = (stop - start) / (num - 1), the last point set to stop
Linspace(start, stop, num, i) ==
    IF i = num - 1 THEN Z(stop)
    ELSE RAdd(RMul(Z(i), RDiv(Z(stop - start), Z(num - 1))), Z(start))

(***************************************************************************)
(* plot_absorption_characteristics, lines 101-118: the arguments of the    *)
(* model re-invocations of the two sweeps.                                 *)
(***************************************************************************)
NumPoints == 100

\* mutant: the size sweep started at 10 micrometers
SizeSweepArgs_from_10(nutrient_concentration, k) ==
    Defaults(Linspace(10, 50, NumPoints, k), nutrient_concentration, FALSE)

\* mutant: the re-invocation asks for plots itself
SizeSweepArgs_replot(nutrient_concentration, k) ==
    Defaults(Linspace(20, 50, NumPoints, k), nutrient_concentration, TRUE)

\* line 105: simulate_aeroponic_absorption(size, nutrient_concentration,
\*                                         plot_results=False)
SizeSweepArgs(nutrient_concentration, k) ==
    Defaults(Linspace(20, 50, NumPoints, k), nutrient_concentration, FALSE)

\* line 117: simulate_aeroponic_absorption(droplet_size, conc,
\*                                         plot_results=False)
ConcSweepArgs(droplet_size, k) ==
    Defaults(droplet_size, Linspace(100, 2000, NumPoints, k), FALSE)

(***************************************************************************)
(* Bounds of the model.                                                    *)
(***************************************************************************)
\* top-level calls in one behaviour of SpecPair
MaxCalls == 2

\* suspended activations of plot_absorption_characteristics before Python's
\* recursion limit is taken to be hit
MaxDepth == 2

(***************************************************************************)
(* Argument sets of the top-level calls.                                   *)
(***************************************************************************)
DropletSizes ==
    {D(19999), Z(20), Z(25), Z(30), Z(35), Z(40), D(40001), Z(45), Z(50),
     D(50001)}

Concentrations == {Z(500), Z(1000), Z(1001)}

ExposureTimes == {Z(60), Z(30), D(30001), Z(35), Z(0), Z(-5)}

\* -0.045 mm makes 1 + interception_param zero at droplet_size 45
RootDiameters == {D(500), Z(0), D(-45)}

AirflowVelocities == {D(100), Z(0), D(-100), Z(1)}

\* 20 - 25000/71 makes air_viscosity zero
Temperatures == {Z(25), Z(20), Q(-23580, 71)}

\* droplet size, concentration and exposure time varied, the rest default
FilmInputs ==
    {[Defaults(d, c, FALSE) EXCEPT !.exposure_time = e] :
        d \in DropletSizes, c \in Concentrations, e \in ExposureTimes}

\* geometry, flow and temperature varied
FlowInputs ==
    {[Defaults(d, Z(500), FALSE) EXCEPT !.root_diameter = r,
                                        !.airflow_velocity = v,
                                        !.temperature = tc,
                                        !.exposure_time = e] :
        d \in {Z(20), Z(35), Z(45)}, r \in RootDiameters,
        v \in AirflowVelocities, tc \in Temperatures, e \in {Z(60), Z(0)}}

\* calls that request the plots
PlotInputs ==
    {Defaults(d, c, TRUE) :
        d \in {D(19999), Z(20), Z(35), D(50001)}, c \in {Z(500), Z(1001)}}
    \cup {[Defaults(Z(45), Z(1000), TRUE) EXCEPT !.exposure_time = e,
                                                 !.airflow_velocity = v] :
             e \in {Z(35), Z(0)}, v \in {Z(1), Z(0)}}

Inputs == FilmInputs \cup FlowInputs \cup PlotInputs

\* airflow velocities that put stokes_number below, at and above 0.1 at
\* droplet_size 35 (410751/30563750 gives exactly 0.1)
PairInputs ==
    {[Defaults(d, Z(500), FALSE) EXCEPT !.airflow_velocity = v] :
        d \in {Z(35), Z(50)},
        v \in {Q(410751, 30563750), D(10), D(20), D(100), Z(1), D(-100)}}

(***************************************************************************)
(* State.                                                                  *)
(*   pc            position of the program                                 *)
(*   args          arguments of the active call of                         *)
(*                 simulate_aeroponic_absorption                           *)
(*   frame         outcome of lines 9-79 of that call: its locals and      *)
(*                 results dictionary, or the exception                    *)
(*   ret           what the top-level caller received                      *)
(*   i             index of the running sweep loop                         *)
(*   res, inner    result and arguments of the last model re-invocation    *)
(*   effs, rates   the lists the sweeps fill                               *)
(*   stack         suspended activations of plot_absorption_characteristics*)
(*   plot_entries  entries of plot_absorption_characteristics so far       *)
(*   reinvocations model re-invocations made by the sweeps so far          *)
(*   ncalls        top-level calls so far                                  *)
(*   prev          arguments and outcome of the previous top-level call    *)
(***************************************************************************)
VARIABLES pc, args, frame, ret, i, res, inner, effs, rates, stack,
          plot_entries, reinvocations, ncalls, prev

vars == <<pc, args, frame, ret, i, res, inner, effs, rates, stack,
          plot_entries, reinvocations, ncalls, prev>>

None == [none |-> TRUE]

Pending == [kind |-> "pending", line |-> 0, results |-> NoLocals]

Returned(results) == [kind |-> "ok", line |-> 0, results |-> results]

Exception(kind, line) == [kind |-> kind, line |-> line, results |-> NoLocals]

Init ==
    /\ pc = "idle"
    /\ args = None
    /\ frame = None
    /\ ret = Pending
    /\ i = 0
    /\ res = None
    /\ inner = None
    /\ effs = <<>>
    /\ rates = <<>>
    /\ stack = <<>>
    /\ plot_entries = 0
    /\ reinvocations = 0
    /\ ncalls = 0
    /\ prev = None

(***************************************************************************)
(* A top-level call simulate_aeroponic_absorption(a), lines 9-84: the      *)
(* exception of lines 9-64 reaches the caller; with plot_results the call  *)
(* enters plot_absorption_characteristics (line 82); otherwise it returns  *)
(* results (line 84).                                                      *)
(***************************************************************************)
Invoke(a) ==
    /\ args' = a
    /\ frame' = Body(a)
    /\ ncalls' = ncalls + 1
    /\ i' = 0
    /\ effs' = <<>>
    /\ rates' = <<>>
    /\ UNCHANGED <<res, inner, stack, reinvocations>>
    /\ IF frame'.kind # "ok"
       THEN /\ pc' = "raised"
            /\ ret' = Exception(frame'.kind, frame'.line)
            /\ UNCHANGED plot_entries
       ELSE IF a.plot_results
       THEN /\ pc' = "sweep_sizes"
            /\ ret' = Pending
            /\ plot_entries' = plot_entries + 1
       ELSE /\ pc' = "returned"
            /\ ret' = Returned(frame'.results)
            /\ UNCHANGED plot_entries

Call(a) ==
    /\ pc = "idle"
    /\ prev' = prev
    /\ Invoke(a)

\* a further top-level call after the previous one has returned or raised
CallAgain(a) ==
    /\ pc \in {"returned", "raised"}
    /\ ncalls < MaxCalls
    /\ prev' = [args |-> args, frame |-> frame, ret |-> ret]
    /\ Invoke(a)

(***************************************************************************)
(* One iteration of a sweep loop re-invoking the model on ia.  An          *)
(* exception of the re-invocation is caught nowhere: it unwinds to the     *)
(* top-level caller.  A re-invocation that asked for plots would enter     *)
(* plot_absorption_characteristics again from its own line 82.             *)
(***************************************************************************)
Reinvoke(ia) ==
    /\ inner' = ia
    /\ res' = Body(ia)
    /\ reinvocations' = reinvocations + 1
    /\ UNCHANGED <<ncalls, prev>>
    /\ IF res'.kind # "ok"
       THEN /\ pc' = "raised"
            /\ ret' = Exception(res'.kind, res'.line)
            /\ stack' = <<>>
            /\ UNCHANGED <<args, frame, i, effs, rates, plot_entries>>
       ELSE IF inner'.plot_results
       THEN IF Len(stack) >= MaxDepth
            THEN /\ pc' = "raised"
                 /\ ret' = Exception("RecursionError", 82)
                 /\ stack' = <<>>
                 /\ UNCHANGED <<args, frame, i, effs, rates, plot_entries>>
            ELSE /\ stack' = Append(stack,
                                [pc |-> pc, args |-> args, frame |-> frame,
                                 i |-> i, effs |-> effs, rates |-> rates])
                 /\ args' = inner'
                 /\ frame' = res'
                 /\ pc' = "sweep_sizes"
                 /\ i' = 0
                 /\ effs' = <<>>
                 /\ rates' = <<>>
                 /\ ret' = ret
                 /\ plot_entries' = plot_entries + 1
       ELSE /\ UNCHANGED <<args, frame, ret, stack, plot_entries>>
            /\ effs' = IF pc = "sweep_sizes"
                       THEN Append(effs, res'.results.efficiency) ELSE effs
            /\ rates' = IF pc = "sweep_concs"
                        THEN Append(rates, res'.results.absorption_rate)
                        ELSE rates
            /\ IF i + 1 < NumPoints
               THEN i' = i + 1 /\ pc' = pc
               ELSE i' = 0 /\ pc' = IF pc = "sweep_sizes"
                                    THEN "sweep_concs" ELSE "show"

\* lines 104-106
SweepSize ==
    /\ pc = "sweep_sizes"
    /\ Reinvoke(SizeSweepArgs(args.nutrient_concentration, i))

\* lines 116-118
SweepConc ==
    /\ pc = "sweep_concs"
    /\ Reinvoke(ConcSweepArgs(args.droplet_size, i))

\* what simulate_aeroponic_absorption returns at line 84 after the plots
ReturnValue(fr, last) == fr.results

(***************************************************************************)
(* Lines 125-140 and 84: the summary panel is drawn, plt.show() returns,   *)
(* and the call that entered the plots returns its results.                *)
(***************************************************************************)
Show ==
    /\ pc = "show"
    /\ UNCHANGED <<res, inner, plot_entries, reinvocations, ncalls, prev>>
    /\ IF stack = <<>>
       THEN /\ pc' = "returned"
            /\ ret' = Returned(ReturnValue(frame, res))
            /\ UNCHANGED <<args, frame, i, effs, rates, stack>>
       ELSE LET top == stack[Len(stack)]
                r   == ReturnValue(frame, res)
            IN  /\ stack' = SubSeq(stack, 1, Len(stack) - 1)
                /\ args' = top.args
                /\ frame' = top.frame
                /\ ret' = ret
                /\ effs' = IF top.pc = "sweep_sizes"
                           THEN Append(top.effs, r.efficiency) ELSE top.effs
                /\ rates' = IF top.pc = "sweep_concs"
                            THEN Append(top.rates, r.absorption_rate)
                            ELSE top.rates
                /\ IF top.i + 1 < NumPoints
                   THEN i' = top.i + 1 /\ pc' = top.pc
                   ELSE i' = 0 /\ pc' = IF top.pc = "sweep_sizes"
                                        THEN "sweep_concs" ELSE "show"

CallOnce == pc = "idle" /\ \E a \in Inputs : Call(a)

Next == CallOnce \/ SweepSize \/ SweepConc \/ Show

\* one top-level call, with or without the plots
Spec == Init /\ [][Next]_vars

FirstCall == pc = "idle" /\ \E a \in PairInputs : Call(a)

FurtherCall == pc # "idle" /\ \E a \in PairInputs : CallAgain(a)

NextPair == FirstCall \/ FurtherCall

\* up to MaxCalls successive top-level calls without plots
SpecPair == Init /\ [][NextPair]_vars

(***************************************************************************)
(* Properties.                                                             *)
(***************************************************************************)
Called == pc # "idle"

Computed == Called /\ frame.kind = "ok"

OutsideRange(droplet_size) ==
    RLt(droplet_size, Z(20)) \/ RGt(droplet_size, Z(50))

AtDefaults(a) ==
    /\ REq(a.root_diameter, D(500))
    /\ REq(a.airflow_velocity, D(100))
    /\ REq(a.temperature, Z(25))
    /\ REq(a.exposure_time, Z(60))
    /\ REq(a.root_density, Z(1000))

\* C1: the call raises ValueError exactly when droplet_size is outside
\* [20, 50] (20 and 50 accepted), whatever the other arguments; when it does,
\* the caller gets no result record and plot_absorption_characteristics is
\* never entered, plot_results or not.
C1_RangeCheck ==
    Called =>
      /\ (frame.kind = "ValueError") <=> OutsideRange(args.droplet_size)
      /\ OutsideRange(args.droplet_size) =>
            /\ pc = "raised"
            /\ ret.kind = "ValueError"
            /\ ret.results = NoLocals
            /\ plot_entries = 0
            /\ reinvocations = 0
      /\ (REq(args.droplet_size, Z(20)) \/ REq(args.droplet_size, Z(50))) =>
            ret.kind # "ValueError"

C1_Witness ==
    /\ pc = "raised"
    /\ ret.kind = "ValueError"
    /\ args.plot_results
    /\ REq(args.droplet_size, D(50001))
    /\ plot_entries = 0

\* C2: with the five optional arguments at their defaults, every call with
\* droplet_size in [20, 50] returns a result record, for every
\* nutrient_concentration; every re-invocation made by the two sweeps
\* returns a result record, so no exception follows an entry of the plots.
C2_DefaultsReturn ==
    /\ (Called /\ AtDefaults(args) /\ ~OutsideRange(args.droplet_size)) =>
          (frame.kind = "ok" /\ pc # "raised")
    /\ reinvocations > 0 =>
          /\ res.kind = "ok"
          /\ AtDefaults(inner)
          /\ ~OutsideRange(inner.droplet_size)
    /\ pc = "raised" => plot_entries = 0

C2_Witness ==
    /\ pc = "sweep_concs"
    /\ i = 0
    /\ reinvocations = NumPoints
    /\ REq(inner.droplet_size, Z(50))
    /\ res.kind = "ok"

EndToEndScenario ==
    /\ pc = "returned"
    /\ AtDefaults(args)
    /\ REq(args.droplet_size, Z(35))
    /\ REq(args.nutrient_concentration, Z(500))

\* C3 as stated: in the end-to-end scenario (droplet_size 35, concentration
\* 500, defaults) bounce_factor = 1, concentration_factor = 1 and the film
\* step computes excess_time = 1/6 and film_formation_factor = 0.95.
C3_AsStated ==
    EndToEndScenario =>
      /\ REq(frame.locals.bounce_factor, Z(1))
      /\ REq(ret.results.parameters.concentration_factor, Z(1))
      /\ frame.locals.film_saturated
      /\ REq(frame.locals.excess_time, Q(1, 6))
      /\ REq(ret.results.parameters.film_formation_factor, Q(95, 100))

\* C3 amended: in the end-to-end scenario bounce_factor = 1,
\* concentration_factor = 1, and the film step is not entered (35 is not
\* above 40): excess_time is not computed and film_formation_factor = 1.
C3_Scenario ==
    EndToEndScenario =>
      /\ REq(frame.locals.bounce_factor, Z(1))
      /\ REq(ret.results.parameters.concentration_factor, Z(1))
      /\ ~frame.locals.film_saturated
      /\ REq(ret.results.parameters.film_formation_factor, Z(1))

C3_Witness ==
    /\ EndToEndScenario
    /\ args.plot_results
    /\ REq(ret.results.parameters.film_formation_factor, Z(1))

\* C4: the returned film_formation_factor is exactly 1 whenever
\* droplet_size <= 40 or exposure_time <= 30; it differs from 1 only when
\* droplet_size > 40, exposure_time > 30 and
\* exposure_time > 30 + (50 - droplet_size), and then it is
\* 1 - 0.3 * (exposure_time - (30 + (50 - droplet_size))) / exposure_time.
C4_FilmFactor ==
    Computed =>
      LET d   == args.droplet_size
          e   == args.exposure_time
          fst == RAdd(Z(30), RSub(Z(50), d))
          fff == frame.results.parameters.film_formation_factor
          engaged == RGt(d, Z(40)) /\ RGt(e, Z(30)) /\ RGt(e, fst)
      IN  /\ (RLe(d, Z(40)) \/ RLe(e, Z(30))) => REq(fff, Z(1))
          /\ ~REq(fff, Z(1)) => engaged
          /\ engaged =>
                REq(fff, RSub(Z(1), RDiv(RMul(Q(3, 10), RSub(e, fst)), e)))

C4_Witness ==
    /\ Computed
    /\ REq(args.droplet_size, Z(45))
    /\ REq(args.exposure_time, Z(60))
    /\ REq(frame.results.parameters.film_formation_factor, Q(875, 1000))

InUnitInterval(x) == RGt(x, Z(0)) /\ RLe(x, Z(1))

\* C5: for every accepted input each of bounce_factor, concentration_factor
\* and film_formation_factor lies in (0, 1], and the combined efficiency
\* does not exceed interception + impaction + sedimentation when that sum
\* is non-negative.
C5_FactorsInUnitInterval ==
    Computed =>
      /\ InUnitInterval(frame.locals.bounce_factor)
      /\ InUnitInterval(frame.results.parameters.concentration_factor)
      /\ InUnitInterval(frame.results.parameters.film_formation_factor)
      /\ RLe(Z(0), frame.locals.uncorrected_sum) =>
            RLe(frame.results.efficiency, frame.locals.uncorrected_sum)

C5_Witness ==
    /\ Computed
    /\ RLt(frame.locals.bounce_factor, Z(1))
    /\ RLt(frame.results.parameters.concentration_factor, Z(1))
    /\ RGt(frame.locals.uncorrected_sum, Z(0))
    /\ RLt(frame.results.efficiency, frame.locals.uncorrected_sum)

ConcentrationRule(a, out) ==
    out.kind = "ok" =>
      REq(out.results.parameters.concentration_factor,
          IF RGt(a.nutrient_concentration, Z(1000)) THEN Q(9, 10) ELSE Z(1))

\* C6: the returned concentration_factor is exactly 0.9 when
\* nutrient_concentration > 1000 and exactly 1 otherwise (1000 gives 1,
\* 1001 gives 0.9), whatever the other arguments; the same holds of every
\* re-invocation of the sweeps.
C6_ConcentrationFactor ==
    /\ Called => ConcentrationRule(args, frame)
    /\ reinvocations > 0 => ConcentrationRule(inner, res)

C6_Witness ==
    /\ Computed
    /\ REq(args.nutrient_concentration, Z(1001))
    /\ REq(frame.results.parameters.concentration_factor, Q(9, 10))

ImpactionRule(out) ==
    out.kind = "ok" =>
      LET st  == out.results.parameters.stokes_number
          imp == out.results.parameters.impaction_efficiency
      IN  IF RLe(st, Q(1, 10)) THEN REq(imp, Z(0))
          ELSE /\ REq(imp, RDiv(RMul(st, st), RAdd(RMul(st, st), Q(1, 4))))
               /\ RGt(imp, Z(0))
               /\ RLt(imp, Z(1))

AboveThreshold(out) ==
    out.kind = "ok" /\ RGt(out.results.parameters.stokes_number, Q(1, 10))

PlotCallReturned == pc = "returned" /\ args.plot_results

C9_Counts ==
    /\ plot_entries <= 1
    /\ stack = <<>>
    /\ reinvocations <= 100 + 100
    /\ reinvocations > 0 => (~inner.plot_results /\ plot_entries = 1)
    /\ PlotCallReturned =>
          /\ plot_entries = 1
          /\ reinvocations = 100 + 100
          /\ Len(effs) = 100
          /\ Len(rates) = 100
          /\ ret = Returned(Body([args EXCEPT !.plot_results = FALSE]).results)
    /\ (Called /\ ~args.plot_results) =>
          (plot_entries = 0 /\ reinvocations = 0)

\* every step of a sweep is one more re-invocation, and none re-enters the
\* plots or raises
C9_Progress ==
    pc \in {"sweep_sizes", "sweep_concs"} =>
      /\ reinvocations' = reinvocations + 1
      /\ plot_entries' = plot_entries
      /\ pc' \in {"sweep_sizes", "sweep_concs", "show"}
      /\ args' = args

\* C9: a call with plot_results enters plot_absorption_characteristics
\* exactly once; the plots re-invoke the model 100 + 100 times, each time
\* with plot_results false, so the plotting routine is never re-entered;
\* every sweep step counts towards that bound, so the sweeps end; and the
\* call returns the record it would have returned with plot_results false.
C9_PlotCallTerminates ==
    /\ []C9_Counts
    /\ [][C9_Progress]_vars

C9_Witness ==
    /\ PlotCallReturned
    /\ plot_entries = 1
    /\ reinvocations = 100 + 100
    /\ ~inner.plot_results

ExcessTimeRule ==
    (Computed /\ frame.locals.film_saturated) =>
      /\ RGt(args.droplet_size, Z(40))
      /\ RGt(args.exposure_time, Z(30))
      /\ RGt(args.exposure_time,
             RAdd(Z(30), RSub(Z(50), args.droplet_size)))
      /\ RGt(frame.locals.excess_time, Z(0))
      /\ RLt(frame.locals.excess_time, Z(1))

NamedDivisorZero ==
    \/ RIsZero(args.airflow_velocity)
    \/ RIsZero(args.root_diameter)
    \/ RIsZero(air_viscosity(args.temperature))

====
